---- MODULE Spec2Model ----
(***************************************************************************)
(* Model of standalone_lead_email_finder.py: the email discovery pipeline  *)
(* find_emails_logic and the functions it calls (sanitize_url,             *)
(* SearXNGClient.search, search_web_standalone_text,                       *)
(* extract_emails_from_text, filter_blacklisted_emails).                   *)
(*                                                                         *)
(* A Python str is a sequence of one-character strings, so that prefix     *)
(* tests, splitting, lowercasing, the regular expressions and sorting are  *)
(* computed character by character as the code computes them.              *)
(* None is the empty sequence: every Optional value of the program         *)
(* (ceo_name, target_domain, searx_url, the error field) is only ever      *)
(* tested for truthiness, and None and '' are both falsy.                  *)
(***************************************************************************)
EXTENDS Naturals, Sequences, FiniteSets, TLC

VARIABLES
    company_input,        \* argument of find_emails_logic
    ceo_name,             \* argument of find_emails_logic (None or a str)
    searx_url,            \* argument of find_emails_logic
    pc,                   \* position in find_emails_logic
    search_name,          \* local of find_emails_logic
    target_domain,        \* local of find_emails_logic, None or a str
    query_templates,      \* local of find_emails_logic: the plan
    qi,                   \* loop index i of the query loop (1-based)
    query,                \* the formatted query of the current iteration
    max_pages,            \* SearXNGClient.search: parameter max_pages
    page,                 \* SearXNGClient.search: local page
    all_results_text,     \* SearXNGClient.search: local all_results_text
    aggregated_text,      \* what the last search returned to the query loop
    all_found_emails_set, \* local of find_emails_logic
    result_dict,          \* the record find_emails_logic returns
    searched,             \* history: queries handed to search_web_standalone_text
    requests,             \* history: page numbers requested by the current search
    fetched,              \* history: the responses the current search received
    backend               \* the text each query's search yields, when fixed in advance

vars == <<company_input, ceo_name, searx_url, pc, search_name, target_domain,
          query_templates, qi, query, max_pages, page, all_results_text,
          aggregated_text, all_found_emails_set, result_dict, searched,
          requests, fetched, backend>>

None == <<>>

(***************************************************************************)
(* Characters and str operations                                           *)
(***************************************************************************)
UpperLetters == <<"A","B","C","D","E","F","G","H","I","J","K","L","M",
                  "N","O","P","Q","R","<<",">>T","U","V","W","X","Y","Z">>

LowerLetters == <<"a","b","c","d","e","f","g","h","i","j","k","l","m",
                  "n","o","p","q","r","s","t","u","v","w","x","y","z">>

DigitChars == <<"0","1","2","3","4","5","6","7","8","9">>

\* The characters of the model in code point order (what sorted() compares).
CodePoints == <<"\n", " ", "\"", "#", "%", "+", ",", "-", ".", "/">> \o DigitChars
              \o <<":", "?", "@">> \o UpperLetters \o <<"_">> \o LowerLetters

Range(s) == {s[i] : i \in 1..Len(s)}

Letters == Range(UpperLetters) \cup Range(LowerLetters)

Digits == Range(DigitChars)

Ord(c) == CHOOSE i \in 1..Len(CodePoints) : CodePoints[i] = c

\* str.lower() on one character
LowerChar(c) ==
    IF \E i \in 1..26 : UpperLetters[i] = c
    THEN LowerLetters[CHOOSE i \in 1..26 : UpperLetters[i] = c]
    ELSE c

\* str.lower()
Lower(s) == [i \in 1..Len(s) |-> LowerChar(s[i])]

\* str.startswith(p)
StartsWith(s, p) == Len(s) >= Len(p) /\ SubSeq(s, 1, Len(p)) = p

\* s[n:]
Drop(s, n) == SubSeq(s, n + 1, Len(s))

\* c in s
Contains(s, c) == \E i \in 1..Len(s) : s[i] = c

\* str.find(c) as a 1-based index, Len(s)+1 when absent
FirstIndex(s, c) ==
    IF Contains(s, c) THEN CHOOSE i \in 1..Len(s) : s[i] = c /\ \A j \in 1..(i-1) : s[j] # c
    ELSE Len(s) + 1

\* str.rfind(c) as a 1-based index, 0 when absent
LastIndex(s, c) ==
    IF Contains(s, c) THEN CHOOSE i \in 1..Len(s) : s[i] = c /\ \A j \in (i+1)..Len(s) : s[j] # c
    ELSE 0

\* s.split(c)[0]
BeforeFirst(s, c) == SubSeq(s, 1, FirstIndex(s, c) - 1)

\* s.split(c)[-1]
AfterLast(s, c) == Drop(s, LastIndex(s, c))

\* The first index >= i whose character is not in class cls (Len(s)+1 if none):
\* where a greedy cls* started at i stops.
RunEnd(s, i, cls) ==
    IF \E k \in i..Len(s) : s[k] \notin cls
    THEN CHOOSE k \in i..Len(s) : s[k] \notin cls /\ \A j \in i..(k-1) : s[j] \in cls
    ELSE Len(s) + 1

\* str.strip() is empty: only whitespace
IsBlank(s) == \A i \in 1..Len(s) : s[i] \in {" ", "\n"}

(***************************************************************************)
(* sanitize_url                                                            *)
(***************************************************************************)
\* urlparse(url).netloc for a url that starts with http://, https:// or //
\* (the only urls sanitize_url parses): the text after the "//" up to the
\* first of "/", "?", "#".
Netloc(url) ==
    LET rest == IF StartsWith(url, <<"/","/">>) THEN Drop(url, 2)
                ELSE Drop(url, FirstIndex(url, ":") + 2)
    IN  SubSeq(rest, 1, RunEnd(rest, 1, Range(CodePoints) \ {"/", "?", "#"}) - 1)

\* domain[4:] when domain.lower().startswith('www.')
StripWwwOnce(domain) ==
    IF StartsWith(Lower(domain), <<"w","w","w",".">>) THEN Drop(domain, 4) ELSE domain

\* re.sub(r':\d+$', '', domain): a final ':' followed by one or more digits
StripPort(domain) ==
    LET n == Len(domain)
        k == CHOOSE j \in 0..n : /\ \A i \in (n-j+1)..n : domain[i] \in Digits
                                 /\ (j < n => domain[n-j] \notin Digits)
    IN  IF k >= 1 /\ k < n /\ domain[n-k] = ":" THEN SubSeq(domain, 1, n-k-1) ELSE domain

\* '.' not in domain or len(domain.split('.')[-1]) < 2
InvalidStructure(domain) == ~Contains(domain, ".") \/ Len(AfterLast(domain, ".")) < 2

sanitize_url(url) ==
    IF IsBlank(url) THEN None
    ELSE LET u == IF StartsWith(url, <<"h","t","t","p",":","/","/">>) \/ StartsWith(url, <<"h","t","t","p","s",":","/","/">>)
                     \/ StartsWith(url, <<"/","/">>)
                  THEN url ELSE <<"h","t","t","p","s",":","/","/">> \o url
             netloc == Netloc(u)
             domain == StripPort(StripWwwOnce(netloc))
         IN  IF netloc = <<>> THEN None
             ELSE IF InvalidStructure(domain) THEN None
             ELSE Lower(domain)

(***************************************************************************)
(* find_emails_logic, step 1: domain and search name                       *)
(***************************************************************************)
\* company_input.startswith(('http', '//'))
HasUrlPrefix(s) == StartsWith(s, <<"h","t","t","p">>) \/ StartsWith(s, <<"/","/">>)

\* The comparison of the input with the domain as exact str equality.
KeepsInputExact(input, domain) == input # domain /\ ~HasUrlPrefix(input)

\* company_input.lower() != target_domain and not company_input.startswith(...)
KeepsInput(input, domain) == Lower(input) # domain /\ ~HasUrlPrefix(input)

\* The search_name of a run, given the input and the result of sanitize_url.
ResolveSearchName(input, sanitized) ==
    IF Contains(input, ".") /\ sanitized # None
    THEN IF KeepsInput(input, sanitized) THEN input
         ELSE IF Contains(sanitized, ".") THEN BeforeFirst(sanitized, ".") ELSE sanitized
    ELSE input

ResolveTargetDomain(input) ==
    IF Contains(input, ".") THEN sanitize_url(input) ELSE None

(***************************************************************************)
(* find_emails_logic, step 2: the query templates                          *)
(***************************************************************************)
\* A template is a sequence of pieces: literal text, or a placeholder of
\* str.format ({name}, {domain}, {search_name}).
Lit(s) == [ph |-> "", lit |-> s]

Ph(p) == [ph |-> p, lit |-> <<>>]

\* if ceo_name and target_domain
TemplatesNameAndDomain ==
    << <<Lit(<<"\"">>), Ph("name"), Lit(<<"\""," ","\"">>), Ph("domain"), Lit(<<"\""," ","e","m","a","i","l">>)>>,
       <<Lit(<<"\"">>), Ph("name"), Lit(<<"\""," ","e","m","a","i","l"," ","a","d","d","r","e","s","s"," ">>), Ph("domain")>>,
       <<Lit(<<"c","o","n","t","a","c","t"," ","\"">>), Ph("name"), Lit(<<"\""," ">>), Ph("domain")>>,
       <<Lit(<<"\"">>), Ph("domain"), Lit(<<"\""," ","e","m","a","i","l">>)>>,
       <<Lit(<<"c","o","n","t","a","c","t"," ">>), Ph("domain")>> >>

\* elif ceo_name and not target_domain
TemplatesNameOnly ==
    << <<Lit(<<"\"">>), Ph("name"), Lit(<<"\""," ","\"">>), Ph("search_name"), Lit(<<"\""," ","e","m","a","i","l">>)>>,
       <<Lit(<<"\"">>), Ph("name"), Lit(<<"\""," ","e","m","a","i","l"," ","a","d","d","r","e","s","s"," ","\"">>), Ph("search_name"), Lit(<<"\""," ","c","o","m","p","a","n","y">>)>>,
       <<Lit(<<"c","o","n","t","a","c","t"," ","\"">>), Ph("name"), Lit(<<"\""," ","\"">>), Ph("search_name"), Lit(<<"\"">>)>>,
       <<Lit(<<"\"">>), Ph("search_name"), Lit(<<"\""," ","e","m","a","i","l">>)>> >>

\* elif target_domain and not ceo_name
TemplatesDomainOnly ==
    << <<Lit(<<"\"">>), Ph("domain"), Lit(<<"\""," ","e","m","a","i","l"," ","a","d","d","r","e","s","s">>)>>,
       <<Lit(<<"c","o","n","t","a","c","t"," ","O","R"," ","s","u","p","p","o","r","t"," ","e","m","a","i","l"," ","\"">>), Ph("domain"), Lit(<<"\"">>)>>,
       <<Lit(<<"\"">>), Ph("domain"), Lit(<<"\""," ","c","o","m","p","a","n","y"," ","c","o","n","t","a","c","t">>)>>,
       <<Lit(<<"s","i","t","e",":">>), Ph("domain"), Lit(<<" ","e","m","a","i","l"," ","O","R"," ","c","o","n","t","a","c","t">>)>> >>

\* else
TemplatesSearchNameOnly ==
    << <<Lit(<<"\"">>), Ph("search_name"), Lit(<<"\""," ","c","o","n","t","a","c","t"," ","e","m","a","i","l">>)>>,
       <<Lit(<<"\"">>), Ph("search_name"), Lit(<<"\""," ","c","u","s","t","o","m","e","r"," ","s","e","r","v","i","c","e"," ","e","m","a","i","l">>)>>,
       <<Lit(<<"\"">>), Ph("search_name"), Lit(<<"\""," ","c","o","m","p","a","n","y"," ","e","m","a","i","l"," ","a","d","d","r","e","s","s">>)>>,
       <<Lit(<<"e","m","a","i","l"," ","a","d","d","r","e","s","s"," ","f","o","r"," ","\"">>), Ph("search_name"), Lit(<<"\"">>)>> >>

\* The if/elif/elif/else on the truthiness of ceo_name and target_domain.
BaseTemplates(name, domain) ==
    IF name # None /\ domain # None THEN TemplatesNameAndDomain
    ELSE IF name # None /\ domain = None THEN TemplatesNameOnly
    ELSE IF domain # None /\ name = None THEN TemplatesDomainOnly
    ELSE TemplatesSearchNameOnly

\* str.split(): the maximal runs of non-whitespace characters, in order
RECURSIVE Split(_)
Split(s) ==
    IF s = <<>> THEN <<>>
    ELSE IF s[1] \in {" ", "\n"} THEN Split(Tail(s))
    ELSE LET e == RunEnd(s, 1, Range(CodePoints) \ {" ", "\n"})
         IN  <<SubSeq(s, 1, e - 1)>> \o Split(Drop(s, e - 1))

\* The five f-string literals built from fname, lname and target_domain.
PermutationTemplates(fname, lname, domain) ==
    << <<Lit(<<"\"">> \o <<fname[1]>> \o lname \o <<"@">> \o domain \o <<"\"">>)>>,
       <<Lit(<<"\"">> \o fname \o <<".">> \o lname \o <<"@">> \o domain \o <<"\"">>)>>,
       <<Lit(<<"\"">> \o fname \o lname \o <<"@">> \o domain \o <<"\"">>)>>,
       <<Lit(<<"\"">> \o lname \o <<".">> \o fname \o <<"@">> \o domain \o <<"\"">>)>>,
       <<Lit(<<"\"">> \o fname \o <<"@">> \o domain \o <<"\"">>)>> >>

\* Permutations whenever the name has two parts, whether a domain is known or not.
AddsPermutationsAnyDomain(name, domain) ==
    name # None /\ Len(Split(Lower(name))) >= 2

\* if ceo_name: ... if len(name_parts) >= 2: ... if target_domain:
AddsPermutations(name, domain) ==
    name # None /\ Len(Split(Lower(name))) >= 2 /\ domain # None

\* query_templates once the permutation block has run
Plan(name, domain) ==
    LET name_parts == Split(Lower(name))
    IN  BaseTemplates(name, domain) \o
        (IF AddsPermutations(name, domain)
         THEN PermutationTemplates(name_parts[1], name_parts[Len(name_parts)], domain)
         ELSE <<>>)

\* template.format(name=..., domain=..., search_name=...)
RECURSIVE Format(_, _, _, _)
Format(template, name, domain, sname) ==
    IF template = <<>> THEN <<>>
    ELSE LET p == Head(template)
             v == IF p.ph = "" THEN p.lit
                  ELSE IF p.ph = "name" THEN name
                  ELSE IF p.ph = "domain" THEN domain
                  ELSE sname
         IN  v \o Format(Tail(template), name, domain, sname)

\* str.replace(old, ''): every non-overlapping occurrence, left to right
RECURSIVE Remove(_, _)
Remove(s, old) ==
    IF Len(s) < Len(old) THEN s
    ELSE IF StartsWith(s, old) THEN Remove(Drop(s, Len(old)), old)
    ELSE <<Head(s)>> \o Remove(Tail(s), old)

\* The query of one iteration: format, then the clean up of empty placeholders.
FormatQuery(template, name, domain, sname) ==
    Remove(Remove(Format(template, name, domain, sname), <<"\"","\""," ">>), <<" ","\"","\"">>)

(***************************************************************************)
(* SearXNGClient and search_web_standalone_text                            *)
(***************************************************************************)
PAGES_PER_QUERY == 2

\* not base_url or not base_url.startswith(('http://', 'https://')): the
\* check of search_web_standalone_text and of SearXNGClient.__init__.
InvalidBaseUrl(base_url) ==
    base_url = None \/ ~(StartsWith(base_url, <<"h","t","t","p",":","/","/">>) \/ StartsWith(base_url, <<"h","t","t","p","s",":","/","/">>))

\* A response of the backend to one page request.  kind "ok" is status 200
\* with a JSON body: is_dict says whether the document is an object, results
\* is data.get('results', []).  The other kinds are the exceptions of
\* session.get, raise_for_status and response.json.
Timeout == [kind |-> "timeout", is_dict |-> FALSE, results |-> <<>>]

RequestError == [kind |-> "request_error", is_dict |-> FALSE, results |-> <<>>]

JsonError == [kind |-> "json_error", is_dict |-> FALSE, results |-> <<>>]

NotAnObject == [kind |-> "ok", is_dict |-> FALSE, results |-> <<>>]

Ok(results) == [kind |-> "ok", is_dict |-> TRUE, results |-> results]

\* One hit of a results array: an object whose title and content are str
\* (None or absent is ''), or something that is no object.
Hit(title, content) == [is_dict |-> TRUE, title |-> title, content |-> content]

BadHit == [is_dict |-> FALSE, title |-> <<>>, content |-> <<>>]

\* f"{title}\n{content}\n\n"
HitText(hit) == hit.title \o <<"\n">> \o hit.content \o <<"\n","\n">>

\* The hits before the first one that is no object: result.get raises on
\* that one and the for loop over page_results ends there.
GoodPrefix(results) ==
    SubSeq(results, 1, RunEnd(results, 1, {h \in Range(results) : h.is_dict}) - 1)

\* all_results_text after the for loop over the hits in hits
RECURSIVE AppendHits(_, _)
AppendHits(text, hits) ==
    IF hits = <<>> THEN text ELSE AppendHits(text \o HitText(Head(hits)), Tail(hits))

\* The loop ended by errors only: an empty page does not stop the paging.
BreaksOnErrorOnly(resp) ==
    \/ resp.kind # "ok"
    \/ ~resp.is_dict
    \/ GoodPrefix(resp.results) # resp.results

\* Whether the response ends the while loop (break, or an exception caught).
Breaks(resp) ==
    \/ resp.kind # "ok"
    \/ ~resp.is_dict
    \/ resp.results = <<>>
    \/ GoodPrefix(resp.results) # resp.results

(***************************************************************************)
(* extract_emails_from_text                                                *)
(***************************************************************************)
LocalClass == Letters \cup Digits \cup {".", "_", "%", "+", "-"}

DomainClass == Letters \cup Digits \cup {".", "-"}

\* EMAIL_REGEX anchored at index i: the index after the match, 0 if none.
\* [a-zA-Z0-9._%+-]+ is greedy and "@" is not in its class, so it takes the
\* whole run; [a-zA-Z0-9.-]+ is greedy and gives back to the last "." of
\* its run that two letters follow; [a-zA-Z]{2,} is greedy.
MatchEnd(text, i) ==
    LET at == RunEnd(text, i, LocalClass)
        dend == RunEnd(text, at + 1, DomainClass)
        dots == {p \in (at + 2)..(dend - 1) :
                    /\ text[p] = "."
                    /\ p + 2 <= Len(text)
                    /\ text[p + 1] \in Letters
                    /\ text[p + 2] \in Letters}
    IN  IF at > i /\ at <= Len(text) /\ text[at] = "@" /\ dots # {}
        THEN RunEnd(text, (CHOOSE p \in dots : \A q \in dots : q <= p) + 1, Letters)
        ELSE 0

\* {email.lower() for email in EMAIL_REGEX.findall(text)}, scanning from pos
RECURSIVE FindAll(_, _)
FindAll(text, pos) ==
    IF pos > Len(text) THEN {}
    ELSE LET e == MatchEnd(text, pos)
         IN  IF e = 0 THEN FindAll(text, pos + 1)
             ELSE {Lower(SubSeq(text, pos, e - 1))} \cup FindAll(text, e)

extract_emails_from_text(text) == IF text = <<>> THEN {} ELSE FindAll(text, 1)

(***************************************************************************)
(* filter_blacklisted_emails                                               *)
(***************************************************************************)
BLACKLISTED_DOMAINS ==
    { <<"e","m","a","i","l","-","f","o","r","m","a","t",".","c","o","m">>, <<"r","o","c","k","e","t","r","e","a","c","h",".","c","o">>, <<"h","u","n","t","e","r",".","i","o">>, <<"c","l","e","a","r","b","i","t",".","c","o","m">>, <<"a","p","o","l","l","o",".","i","o">>,
      <<"e","m","a","i","l","h","i","p","p","o",".","c","o","m">>, <<"m","a","i","l","c","h","e","c","k",".","a","i">>, <<"v","e","r","i","f","y","-","e","m","a","i","l",".","o","r","g">>, <<"e","m","a","i","l","-","c","h","e","c","k","e","r",".","n","e","t">>,
      <<"f","i","n","d","e","m","a","i","l","s",".","c","o","m">>, <<"f","i","n","d","t","h","a","t",".","e","m","a","i","l">>, <<"s","k","y","m","e","m",".","i","n","f","o">>, <<"a","n","y","m","a","i","l",".","c","o","m">>, <<"s","n","o","v",".","i","o">>,
      <<"t","h","a","t","s","t","h","e","m",".","c","o","m">>, <<"e","m","a","i","l","f","i","n","d","e","r",".","i","o">>, <<"a","o","l",".","c","o","m">>, <<"g","m","a","i","l",".","c","o","m">>, <<"g","o","o","g","l","e","m","a","i","l",".","c","o","m">>,
      <<"h","o","t","m","a","i","l",".","c","o","m">>, <<"m","s","n",".","c","o","m">>, <<"l","i","v","e",".","c","o","m">>, <<"y","a","h","o","o",".","c","o","m">>, <<"o","u","t","l","o","o","k",".","c","o","m">>,
      <<"g","m","x",".","c","o","m">>, <<"m","a","i","l",".","c","o","m">>, <<"e","x","a","m","p","l","e",".","c","o","m">>, <<"w","i","x",".","c","o","m">>, <<"s","q","u","a","r","e","s","p","a","c","e",".","c","o","m">>, <<"g","o","d","a","d","d","y",".","c","o","m">>,
      <<"p","r","o","t","o","b","u","f",".","c","o","m">>, <<"z","o","h","o",".","c","o","m">>, <<"y","a","n","d","e","x",".","c","o","m">>, <<"p","r","o","t","o","n","m","a","i","l",".","c","o","m">>, <<"g","i","t","h","u","b",".","c","o","m">>,
      <<"i","c","l","o","u","d",".","c","o","m">>, <<"p","r","i","v","a","t","e","r","e","l","a","y",".","a","p","p","l","e","i","d",".","c","o","m">>, <<"l","i","n","k","e","d","i","n",".","c","o","m">>, <<"f","a","c","e","b","o","o","k",".","c","o","m">>, <<"t","w","i","t","t","e","r",".","c","o","m">>,
      <<"i","n","s","t","a","g","r","a","m",".","c","o","m">>, <<"s","u","p","p","o","r","t",".","c","o","m">>, <<"s","e","r","v","i","c","e",".","c","o","m">>, <<"i","n","f","o",".","c","o","m">>,
      <<".","i","n","f","o">>, <<".","x","y","z">>, <<".","o","n","l","i","n","e">>, <<".","c","l","u","b">>, <<".","s","i","t","e">>, <<".","l","i","v","e">> }

\* email.split('@', 1) raises ValueError (not enough values to unpack)
Unsplittable(email) == ~Contains(email, "@")

\* _, domain_part = email.split('@', 1): the text after the first "@"
DomainPart(email) == Drop(email, FirstIndex(email, "@"))

\* The blacklist looked up with the whole address.
BlacklistedAddress(email) == email \in BLACKLISTED_DOMAINS

\* Check 1: domain_part in BLACKLISTED_DOMAINS
Blacklisted(email) == DomainPart(email) \in BLACKLISTED_DOMAINS

\* s.endswith(p)
EndsWith(s, p) == Len(s) >= Len(p) /\ SubSeq(s, Len(s) - Len(p) + 1, Len(s)) = p

\* The target check as a suffix test, which lets subdomains through.
OffTargetSuffix(email, target) ==
    LET normalized_target_domain == IF target # None THEN Lower(target) ELSE None
    IN  normalized_target_domain # None /\ ~EndsWith(DomainPart(email), normalized_target_domain)

\* Check 3: normalized_target_domain and domain_part != normalized_target_domain
OffTarget(email, target) ==
    LET normalized_target_domain == IF target # None THEN Lower(target) ELSE None
    IN  normalized_target_domain # None /\ DomainPart(email) # normalized_target_domain

\* a < b for str (code point order), as sorted() compares
StrLess(a, b) ==
    LET m == IF Len(a) <= Len(b) THEN Len(a) ELSE Len(b)
    IN  IF \E i \in 1..m : a[i] # b[i]
        THEN LET i == CHOOSE i \in 1..m : a[i] # b[i] /\ \A j \in 1..(i-1) : a[j] = b[j]
             IN  Ord(a[i]) < Ord(b[i])
        ELSE Len(a) < Len(b)

\* sorted(list(set(valid_emails)))
RECURSIVE Sorted(_)
Sorted(S) ==
    IF S = {} THEN <<>>
    ELSE LET least == CHOOSE x \in S : \A y \in S \ {x} : StrLess(x, y)
         IN  <<least>> \o Sorted(S \ {least})

\* The checks in the other order: with a target, a candidate of the target
\* domain is accepted before the blacklist is looked up.
ValidEmailsTargetFirst(emails, target) ==
    {email \in emails : /\ ~Unsplittable(email)
                        /\ IF target # None THEN ~OffTarget(email, target)
                                             ELSE ~Blacklisted(email)}

\* valid_emails: the candidates that pass the try block of the for loop
ValidEmails(emails, target) ==
    {email \in emails : /\ ~Unsplittable(email)
                        /\ ~Blacklisted(email)
                        /\ ~OffTarget(email, target)}

filter_blacklisted_emails(emails, target) == Sorted(ValidEmails(emails, target))

(***************************************************************************)
(* The inputs of the model                                                 *)
(***************************************************************************)
\* company_input of the pipeline runs: a bare domain, a domain in upper case,
\* a URL, a name, a name with a dot that is no domain, a blacklisted domain.
CompanyInputs ==
    { <<"a","b",".","c","o">>, <<"A","B",".","c","o">>, <<"h","t","t","p","s",":","/","/","w","w","w",".","a","b",".","c","o","/","p">>, <<"A","b"," ","C","o">>, <<"A","b"," ","C","o",".">>, <<"g","m","a","i","l",".","c","o","m">> }

\* ceo_name: absent, one token, two tokens
CeoNames == { None, <<"j","o">>, <<"J","o"," ","L","i">> }

\* searx_url: absent, without a scheme, valid
SearxUrls == { None, <<"a","b",".","c","o",":","8","0">>, <<"h","t","t","p",":","/","/","s","/">> }

HitA == Hit(<<"J","o"," ","L","i">>, <<"J","o",".","L","i","@","A","B",".","c","o"," ","x","@","h","u","n","t","e","r",".","i","o">>)

HitB == Hit(None, <<"c","@","c","d",".","i","o",","," ","s","@","m",".","a","b",".","c","o"," ","a","@","g","m","a","i","l",".","c","o","m",".">>)

\* The results arrays the backend answers with.
Bodies == { <<>>, <<HitA>>, <<HitB>>, <<HitA, HitB>>, <<HitA, BadHit, HitB>>, <<BadHit>> }

Responses == {Timeout, RequestError, JsonError, NotAnObject} \cup {Ok(b) : b \in Bodies}

\* The texts a whole search can return, for the runs whose backend is fixed.
FixedTexts == { <<>>, AppendHits(<<>>, <<HitA>>), AppendHits(<<>>, <<HitB>>) }

\* The inputs of the runs of the domain normalisation alone: every
\* concatenation of at most MaxFrags of these fragments.
MaxFrags == 3

Frags == { <<"h","t","t","p","s",":","/","/">>, <<"h","t","t","p">>, <<"/","/">>, <<"w","w","w",".">>, <<"W","W","W",".">>, <<"a","b",".","c","o">>, <<"A","b",".","C","o">>,
           <<"x">>, <<".">>, <<":">>, <<":","8","0">>, <<"/","p">>, <<"u","@">> }

RECURSIVE Concats(_)
Concats(n) ==
    IF n = 0 THEN {<<>>}
    ELSE LET shorter == Concats(n - 1)
         IN  shorter \cup {f \o s : f \in Frags, s \in shorter}

\* Upper bound on max_pages for the runs of SearXNGClient.search alone.
MaxPages == 3

\* The candidates handed to filter_blacklisted_emails when it is called on
\* its own: well formed, blacklisted, without "@", with two "@".
FilterCandidates ==
    { <<"j","o","@","a","b",".","c","o">>, <<"x","@","h","u","n","t","e","r",".","i","o">>, <<"c","@","c","d",".","i","o">>, <<"j","o","a","b",".","c","o">>, <<"a","@","b","@","c","d",".","i","o">>, <<"a","@","b","@","a","b",".","c","o">>, <<"Z","@","a","b",".","c","o">> }

FilterTargets == { None, <<"a","b",".","c","o">>, <<"b","@","a","b",".","c","o">> }

(***************************************************************************)
(* The state machine                                                       *)
(***************************************************************************)
\* result_dict = {"query_details": {}, "found_emails": [], "error": None}
InitialResult ==
    [search_name |-> None, target_domain |-> None, found_emails |-> <<>>, error |-> None]

\* What no run has set before its first step.
InitCommon ==
    /\ search_name = None
    /\ query_templates = <<>>
    /\ qi = 1
    /\ query = <<>>
    /\ page = 1
    /\ all_results_text = <<>>
    /\ aggregated_text = <<>>
    /\ result_dict = InitialResult
    /\ searched = <<>>
    /\ requests = <<>>
    /\ fetched = <<>>
    /\ backend = <<>>

Init ==
    /\ company_input \in CompanyInputs
    /\ ceo_name \in CeoNames
    /\ searx_url \in SearxUrls
    /\ pc = "NORMALIZE"
    /\ target_domain = None
    /\ all_found_emails_set = {}
    /\ max_pages = PAGES_PER_QUERY
    /\ InitCommon

\* Step 1 of find_emails_logic: target_domain, search_name, query_details.
Normalize ==
    /\ pc = "NORMALIZE"
    /\ LET sanitized == ResolveTargetDomain(company_input)
           name == ResolveSearchName(company_input, sanitized)
       IN  /\ target_domain' = sanitized
           /\ search_name' = name
           /\ result_dict' = [result_dict EXCEPT !.search_name = name,
                                                 !.target_domain = sanitized]
    /\ pc' = "PLAN"
    /\ UNCHANGED <<company_input, ceo_name, searx_url, query_templates, qi, query,
                   max_pages, page, all_results_text, aggregated_text,
                   all_found_emails_set, searched, requests, fetched, backend>>

\* Step 2 of find_emails_logic: query_templates, and the empty candidate set.
PlanStep(b) ==
    /\ pc = "PLAN"
    /\ query_templates' = Plan(ceo_name, target_domain)
    /\ all_found_emails_set' = {}
    /\ qi' = 1
    /\ backend' = b
    /\ pc' = "LOOP"
    /\ UNCHANGED <<company_input, ceo_name, searx_url, search_name, target_domain,
                   query, max_pages, page, all_results_text, aggregated_text,
                   result_dict, searched, requests, fetched>>

PlanQueries == PlanStep(<<>>)

\* The head of one iteration of the query loop: the query is formatted and
\* search_web_standalone_text is called.  Without a usable base url the call
\* returns '' at once (no client, no request); otherwise the client's search
\* starts at page 1.
BeginQuery ==
    /\ pc = "LOOP"
    /\ qi <= Len(query_templates)
    /\ LET q == FormatQuery(query_templates[qi], ceo_name, target_domain, search_name)
       IN  query' = q /\ searched' = Append(searched, [i |-> qi, q |-> q])
    /\ requests' = <<>>
    /\ fetched' = <<>>
    /\ all_results_text' = <<>>
    /\ page' = 1
    /\ max_pages' = PAGES_PER_QUERY
    /\ IF InvalidBaseUrl(searx_url)
       THEN aggregated_text' = <<>> /\ pc' = "EXTRACT"
       ELSE aggregated_text' = aggregated_text /\ pc' = "PAGING"
    /\ UNCHANGED <<company_input, ceo_name, searx_url, search_name, target_domain,
                   query_templates, qi, all_found_emails_set, result_dict, backend>>

\* One iteration of the while loop of SearXNGClient.search, for the response
\* resp to the request of page `page`.
FetchPage(resp) ==
    /\ pc = "PAGING"
    /\ page <= max_pages
    /\ requests' = Append(requests, page)
    /\ fetched' = Append(fetched, resp)
    /\ all_results_text' =
          IF resp.kind = "ok" /\ resp.is_dict
          THEN AppendHits(all_results_text, GoodPrefix(resp.results))
          ELSE all_results_text
    /\ IF Breaks(resp)
       THEN page' = page /\ pc' = "BREAK"
       ELSE page' = page + 1 /\ pc' = "PAGING"
    /\ UNCHANGED <<company_input, ceo_name, searx_url, search_name, target_domain,
                   query_templates, qi, query, max_pages, aggregated_text,
                   all_found_emails_set, result_dict, searched, backend>>

\* The while loop has ended (the condition failed, or a break):
\* return all_results_text.
SearchReturn ==
    /\ pc = "BREAK" \/ (pc = "PAGING" /\ page > max_pages)
    /\ aggregated_text' = all_results_text
    /\ pc' = "EXTRACT"
    /\ UNCHANGED <<company_input, ceo_name, searx_url, search_name, target_domain,
                   query_templates, qi, query, max_pages, page, all_results_text,
                   all_found_emails_set, result_dict, searched, requests, fetched,
                   backend>>

\* The candidate set replaced by the emails of the last query.
Overwrite(found, emails_from_query) == emails_from_query

\* all_found_emails_set.update(emails_from_query)
Update(found, emails_from_query) == found \cup emails_from_query

\* The rest of the iteration with a query that yields no text ending the run.
ExtractOrAbort ==
    /\ pc = "EXTRACT"
    /\ all_found_emails_set' =
          Update(all_found_emails_set, extract_emails_from_text(aggregated_text))
    /\ qi' = qi + 1
    /\ pc' = IF aggregated_text = <<>> THEN "DONE" ELSE "LOOP"
    /\ UNCHANGED <<company_input, ceo_name, searx_url, search_name, target_domain,
                   query_templates, query, max_pages, page, all_results_text,
                   aggregated_text, result_dict, searched, requests, fetched, backend>>

\* The rest of the iteration: extraction, the update of the candidate set
\* (nothing to add when the text or the extracted set is empty), next i.
ExtractAndMerge ==
    /\ pc = "EXTRACT"
    /\ all_found_emails_set' =
          Update(all_found_emails_set, extract_emails_from_text(aggregated_text))
    /\ qi' = qi + 1
    /\ pc' = "LOOP"
    /\ UNCHANGED <<company_input, ceo_name, searx_url, search_name, target_domain,
                   query_templates, query, max_pages, page, all_results_text,
                   aggregated_text, result_dict, searched, requests, fetched, backend>>

\* Step 3 of find_emails_logic: result_dict["found_emails"]
FinalEmails(found, target) ==
    IF found = {} THEN <<>> ELSE filter_blacklisted_emails(found, target)

\* The query loop is over: filter and return result_dict.
FilterStep ==
    /\ pc = "LOOP"
    /\ qi > Len(query_templates)
    /\ result_dict' = [result_dict EXCEPT
                          !.found_emails = FinalEmails(all_found_emails_set, target_domain)]
    /\ pc' = "DONE"
    /\ UNCHANGED <<company_input, ceo_name, searx_url, search_name, target_domain,
                   query_templates, qi, query, max_pages, page, all_results_text,
                   aggregated_text, all_found_emails_set, searched, requests, fetched,
                   backend>>

Next ==
    \/ Normalize
    \/ PlanQueries
    \/ BeginQuery
    \/ \E resp \in Responses : FetchPage(resp)
    \/ SearchReturn
    \/ ExtractAndMerge
    \/ FilterStep

Spec == Init /\ [][Next]_vars

(***************************************************************************)
(* The domain normalisation alone, on every input of Concats(MaxFrags)     *)
(***************************************************************************)
InitNorm ==
    /\ company_input \in Concats(MaxFrags)
    /\ ceo_name = None
    /\ searx_url = None
    /\ pc = "NORMALIZE"
    /\ target_domain = None
    /\ all_found_emails_set = {}
    /\ max_pages = PAGES_PER_QUERY
    /\ InitCommon

NextNorm == Normalize

SpecNorm == InitNorm /\ [][NextNorm]_vars

(***************************************************************************)
(* SearXNGClient.search alone, for max_pages in 0..MaxPages                *)
(***************************************************************************)
InitSearch ==
    /\ company_input = <<"a","b",".","c","o">>
    /\ ceo_name = None
    /\ searx_url = <<"h","t","t","p",":","/","/","s","/">>
    /\ pc = "PAGING"
    /\ target_domain = None
    /\ all_found_emails_set = {}
    /\ max_pages \in 0..MaxPages
    /\ InitCommon

NextSearch ==
    \/ \E resp \in Responses : FetchPage(resp)
    \/ SearchReturn

SpecSearch == InitSearch /\ [][NextSearch]_vars

(***************************************************************************)
(* filter_blacklisted_emails alone, on every subset of FilterCandidates    *)
(***************************************************************************)
InitFilter ==
    /\ company_input = <<>>
    /\ ceo_name = None
    /\ searx_url = None
    /\ pc = "CALL_FILTER"
    /\ target_domain \in FilterTargets
    /\ all_found_emails_set \in SUBSET FilterCandidates
    /\ max_pages = PAGES_PER_QUERY
    /\ InitCommon

\* filter_blacklisted_emails(all_found_emails_set, target_domain)
CallFilter ==
    /\ pc = "CALL_FILTER"
    /\ result_dict' = [result_dict EXCEPT
                          !.found_emails = filter_blacklisted_emails(all_found_emails_set,
                                                                     target_domain)]
    /\ pc' = "DONE"
    /\ UNCHANGED <<company_input, ceo_name, searx_url, search_name, target_domain,
                   query_templates, qi, query, max_pages, page, all_results_text,
                   aggregated_text, all_found_emails_set, searched, requests, fetched,
                   backend>>

NextFilter == CallFilter

SpecFilter == InitFilter /\ [][NextFilter]_vars

(***************************************************************************)
(* The query loop with its iterations taken in any order: the text each    *)
(* query's search yields is fixed when the plan is made (backend), and an  *)
(* iteration runs as one step.                                             *)
(***************************************************************************)
InitAny ==
    /\ company_input \in { <<"a","b",".","c","o">>, <<"A","b"," ","C","o">> }
    /\ ceo_name \in { None, <<"j","o">> }
    /\ searx_url = <<"h","t","t","p",":","/","/","s","/">>
    /\ pc = "NORMALIZE"
    /\ target_domain = None
    /\ all_found_emails_set = {}
    /\ max_pages = PAGES_PER_QUERY
    /\ InitCommon

PlanFixed ==
    \E b \in [1..Len(Plan(ceo_name, target_domain)) -> FixedTexts] : PlanStep(b)

\* The body of the query loop for template i, whichever iterations ran before.
QueryAny(i) ==
    /\ pc = "LOOP"
    /\ i \in 1..Len(query_templates)
    /\ \A k \in 1..Len(searched) : searched[k].i # i
    /\ LET q == FormatQuery(query_templates[i], ceo_name, target_domain, search_name)
       IN  query' = q /\ searched' = Append(searched, [i |-> i, q |-> q])
    /\ aggregated_text' = backend[i]
    /\ all_found_emails_set' =
          Update(all_found_emails_set, extract_emails_from_text(backend[i]))
    /\ qi' = qi + 1
    /\ UNCHANGED <<company_input, ceo_name, searx_url, pc, search_name, target_domain,
                   query_templates, max_pages, page, all_results_text, result_dict,
                   requests, fetched, backend>>

NextAny ==
    \/ Normalize
    \/ PlanFixed
    \/ \E i \in 1..Len(query_templates) : QueryAny(i)
    \/ FilterStep

SpecAnyOrder == InitAny /\ [][NextAny]_vars

(***************************************************************************)
(* Properties                                                              *)
(***************************************************************************)
found_emails == result_dict.found_emails

\* The domain part of an address as a reader takes it: the text after "@".
AfterAt(email) == AfterLast(email, "@")

\* The number of "@" in a candidate
AtCount(email) == Cardinality({i \in 1..Len(email) : email[i] = "@"})

\* C1: when the run's target_domain is not null, every entry of found_emails
\* has a domain part equal to target_domain, whatever the backend answered.
C1_DomainInvariant ==
    (pc = "DONE" /\ result_dict.target_domain # None)
        => \A k \in 1..Len(found_emails) : AfterAt(found_emails[k]) = result_dict.target_domain

\* A finished run with a target domain that returned an address and had
\* dropped a candidate of another, not blacklisted, domain.
C1_Witness ==
    /\ pc = "DONE"
    /\ result_dict.target_domain # None
    /\ found_emails # <<>>
    /\ \E e \in all_found_emails_set :
          AfterAt(e) # target_domain /\ AfterAt(e) \notin BLACKLISTED_DOMAINS

\* C2: no entry of found_emails has a domain part in the blacklist, whether
\* or not a target domain is known.
C2_BlacklistInvariant ==
    pc = "DONE" => \A k \in 1..Len(found_emails) : AfterAt(found_emails[k]) \notin BLACKLISTED_DOMAINS

\* A finished run without a target domain that returned addresses and had
\* found a candidate of a blacklisted domain.
C2_Witness ==
    /\ pc = "DONE"
    /\ result_dict.target_domain = None
    /\ found_emails # <<>>
    /\ \E e \in all_found_emails_set : AfterAt(e) \in BLACKLISTED_DOMAINS

\* An endpoint the run can use: not empty, and an absolute http or https URL.
UsableEndpoint(url) ==
    url # None /\ (StartsWith(url, <<"h","t","t","p",":","/","/">>) \/ StartsWith(url, <<"h","t","t","p","s",":","/","/">>))

\* C3: the error field of the result is populated when the search endpoint is
\* missing or invalid, and stays null for a valid endpoint.
C3_ErrorField ==
    pc = "DONE" => ((result_dict.error # None) <=> ~UsableEndpoint(searx_url))

\* The steps of one iteration of the query loop, at most: BeginQuery, one
\* FetchPage per page, SearchReturn, ExtractAndMerge.
StepsPerQuery == max_pages + 3

\* The longest plan: the five templates of a known name and domain, and the
\* five guesses.
LongestPlan == Len(TemplatesNameAndDomain) + 5

\* An upper bound on the number of steps the run has left.
Rank ==
    LET n == Len(query_templates)
    IN  CASE pc = "NORMALIZE" -> 3 + LongestPlan * StepsPerQuery
          [] pc = "PLAN" -> 2 + LongestPlan * StepsPerQuery
          [] pc = "LOOP" -> 1 + ((n + 1) - qi) * StepsPerQuery
          [] pc = "PAGING" -> 3 + (n - qi) * StepsPerQuery + ((max_pages + 1) - page)
          [] pc = "BREAK" -> 3 + (n - qi) * StepsPerQuery
          [] pc = "EXTRACT" -> 2 + (n - qi) * StepsPerQuery
          [] OTHER -> 0

\* A step of the run is possible: the guard of one of its steps holds.
CanStep ==
    \/ pc \in {"NORMALIZE", "PLAN", "BREAK", "EXTRACT"}
    \/ pc = "LOOP" /\ (qi <= Len(query_templates) \/ qi > Len(query_templates))
    \/ pc = "PAGING" /\ ((page <= max_pages /\ Responses # {}) \/ page > max_pages)

Succeeded(resp) ==
    /\ resp.kind = "ok"
    /\ resp.is_dict
    /\ resp.results # <<>>
    /\ \A k \in 1..Len(resp.results) : resp.results[k].is_dict

\* The text of all the hits of the pages of resps, in order.
RECURSIVE TextOfPages(_)
TextOfPages(resps) ==
    IF resps = <<>> THEN <<>>
    ELSE AppendHits(<<>>, Head(resps).results) \o TextOfPages(Tail(resps))

\* Pages 1, 2, ... in order, each once, at most max_pages, and none after the
\* first page that did not succeed.
PagingDiscipline ==
    /\ Len(requests) <= max_pages
    /\ Len(fetched) = Len(requests)
    /\ \A k \in 1..Len(requests) : requests[k] = k
    /\ \A k \in 1..(Len(fetched) - 1) : Succeeded(fetched[k])
    /\ Len(requests) < max_pages => (fetched # <<>> /\ ~Succeeded(fetched[Len(fetched)]))

\* The pages that succeeded (all but possibly the last one fetched).
SucceededPages ==
    IF fetched # <<>> /\ ~Succeeded(fetched[Len(fetched)])
    THEN SubSeq(fetched, 1, Len(fetched) - 1)
    ELSE fetched

PartialText ==
    IF /\ fetched # <<>>
       /\ ~Succeeded(fetched[Len(fetched)])
       /\ fetched[Len(fetched)].kind = "ok"
       /\ fetched[Len(fetched)].is_dict
    THEN LET hits == fetched[Len(fetched)].results
             bad == CHOOSE k \in 1..(Len(hits) + 1) :
                       /\ k <= Len(hits) => ~hits[k].is_dict
                       /\ \A j \in 1..(k - 1) : hits[j].is_dict
         IN  AppendHits(<<>>, SubSeq(hits, 1, bad - 1))
    ELSE <<>>

C6_MalformedSkipped ==
    pc = "DONE" =>
        /\ \A e \in all_found_emails_set : AtCount(e) # 1 => ~(\E k \in 1..Len(found_emails) : found_emails[k] = e)
        /\ \A e \in all_found_emails_set :
              (AtCount(e) = 1 /\ AfterAt(e) \notin BLACKLISTED_DOMAINS
                 /\ (target_domain = None \/ AfterAt(e) = target_domain))
              => \E k \in 1..Len(found_emails) : found_emails[k] = e

\* The input carries no scheme.
NoScheme(input) ==
    ~(StartsWith(input, <<"h","t","t","p",":","/","/">>) \/ StartsWith(input, <<"h","t","t","p","s",":","/","/">>) \/ StartsWith(input, <<"/","/">>))

\* C7 as claimed: after a successful normalisation search_name is the original
\* input, except for an input without a scheme that equals the bare domain,
\* whose search_name is the first label of the domain.
C7_OriginalUnlessBareDomain ==
    (pc = "PLAN" /\ Contains(company_input, ".") /\ target_domain # None)
        => search_name = IF NoScheme(company_input) /\ company_input = target_domain
                         THEN BeforeFirst(target_domain, ".")
                         ELSE company_input

\* C7 as amended: search_name is the first label of the domain when the input
\* in lower case equals the domain or when the input starts with "http" or
\* "//"; otherwise it is the original input.
C7_FirstLabelForDomainOrUrl ==
    (pc = "PLAN" /\ Contains(company_input, ".") /\ target_domain # None)
        => search_name = IF \/ Lower(company_input) = target_domain
                            \/ StartsWith(company_input, <<"h","t","t","p">>)
                            \/ StartsWith(company_input, <<"/","/">>)
                         THEN BeforeFirst(target_domain, ".")
                         ELSE company_input

\* A URL with a scheme was normalised and its search_name is not the input.
C7_Witness ==
    /\ pc = "PLAN"
    /\ target_domain # None
    /\ StartsWith(company_input, <<"h","t","t","p","s",":","/","/">>)
    /\ search_name = BeforeFirst(target_domain, ".")
    /\ search_name # company_input

\* A ":" followed only by letters and digits up to the end: a port suffix,
\* numeric, empty or not numeric.
HasPortSuffix(domain) ==
    \E i \in 1..Len(domain) :
        domain[i] = ":" /\ \A j \in (i + 1)..Len(domain) : domain[j] \in Letters \cup Digits

\* C8: a non-null target_domain is lower case, has no scheme, does not start
\* with "www.", has no port suffix, and has a "." followed by a final label
\* of two characters or more.
C8_DomainShape ==
    (pc = "PLAN" /\ target_domain # None) =>
        /\ target_domain = Lower(target_domain)
        /\ ~Contains(target_domain, "/")
        /\ ~StartsWith(target_domain, <<"w","w","w",".">>)
        /\ ~HasPortSuffix(target_domain)
        /\ Contains(target_domain, ".")
        /\ Len(AfterLast(target_domain, ".")) >= 2

UsesPh(template, p) == \E k \in 1..Len(template) : template[k].ph = p

NameAndDomain(t) == UsesPh(t, "name") /\ UsesPh(t, "domain")

DomainOnly(t) == UsesPh(t, "domain") /\ ~UsesPh(t, "name")

NameAndCompany(t) == UsesPh(t, "name") /\ UsesPh(t, "search_name")

CompanyOnly(t) == UsesPh(t, "search_name") /\ ~UsesPh(t, "name")

\* A permutation guess: one literal, a quoted address at the target domain.
Guess(t) ==
    /\ Len(t) = 1
    /\ t[1].ph = ""
    /\ Contains(t[1].lit, "@")
    /\ AfterAt(t[1].lit) = target_domain \o <<"\"">>

Count(templates, P(_)) == Cardinality({k \in 1..Len(templates) : P(templates[k])})

NameKnown == ceo_name # None

DomainKnown == target_domain # None

\* Five guesses, after everything else, exactly when the domain is known and
\* the name has two tokens or more; and nothing but base templates before.
GuessesAppended(base) ==
    IF DomainKnown /\ NameKnown /\ Len(Split(ceo_name)) >= 2
    THEN /\ Len(query_templates) = base + 5
         /\ \A k \in 1..Len(query_templates) : Guess(query_templates[k]) <=> k > base
    ELSE /\ Len(query_templates) = base
         /\ Count(query_templates, Guess) = 0

\* C9 as claimed: the base part of the plan has five name+domain templates and
\* two domain-only ones (both known), four name+company templates and one
\* company-only one (name only), four templates (domain only, or neither);
\* five guesses follow exactly when the domain is known and the name has two
\* tokens or more.
C9_PlanAsClaimed ==
    pc \notin {"NORMALIZE", "PLAN"} =>
        /\ (NameKnown /\ DomainKnown) =>
              /\ Count(query_templates, NameAndDomain) = 5
              /\ Count(query_templates, DomainOnly) = 2
              /\ GuessesAppended(7)
        /\ (NameKnown /\ ~DomainKnown) =>
              /\ Count(query_templates, NameAndCompany) = 4
              /\ Count(query_templates, CompanyOnly) = 1
              /\ GuessesAppended(5)
        /\ (~NameKnown /\ DomainKnown) =>
              /\ Count(query_templates, DomainOnly) = 4
              /\ GuessesAppended(4)
        /\ (~NameKnown /\ ~DomainKnown) =>
              /\ Count(query_templates, CompanyOnly) = 4
              /\ GuessesAppended(4)

\* C9 as amended: three name+domain templates and two domain-only ones (both
\* known), three name+company templates and one company-only one (name only);
\* the rest as claimed.
C9_PlanOfTheCode ==
    pc \notin {"NORMALIZE", "PLAN"} =>
        /\ (NameKnown /\ DomainKnown) =>
              /\ Count(query_templates, NameAndDomain) = 3
              /\ Count(query_templates, DomainOnly) = 2
              /\ GuessesAppended(5)
        /\ (NameKnown /\ ~DomainKnown) =>
              /\ Count(query_templates, NameAndCompany) = 3
              /\ Count(query_templates, CompanyOnly) = 1
              /\ GuessesAppended(4)
        /\ (~NameKnown /\ DomainKnown) =>
              /\ Count(query_templates, DomainOnly) = 4
              /\ GuessesAppended(4)
        /\ (~NameKnown /\ ~DomainKnown) =>
              /\ Count(query_templates, CompanyOnly) = 4
              /\ GuessesAppended(4)

\* A plan for a known domain and a two-token name: five base templates and
\* five guesses.
C9_Witness ==
    /\ pc = "LOOP"
    /\ NameKnown
    /\ DomainKnown
    /\ Len(Split(ceo_name)) >= 2
    /\ Len(query_templates) = 10
    /\ Guess(query_templates[6])

\* The candidate set of the sequential run: the queries 1..n in plan order.
RECURSIVE SequentialSet(_)
SequentialSet(n) ==
    IF n = 0 THEN {}
    ELSE Update(SequentialSet(n - 1), extract_emails_from_text(backend[n]))

\* C10: with the candidates of each query fixed, the final found_emails of a
\* run that takes the queries in any order is that of the run in plan order.
C10_OrderIrrelevant ==
    pc = "DONE" =>
        found_emails = FinalEmails(SequentialSet(Len(query_templates)), target_domain)

\* A finished run that took the last query first and the first query last,
\* two queries with different candidates, and returned addresses.
C10_Witness ==
    /\ pc = "DONE"
    /\ found_emails # <<>>
    /\ searched[1].i = Len(query_templates)
    /\ searched[Len(searched)].i = 1
    /\ backend[1] # backend[Len(query_templates)]
    /\ backend[1] # <<>>
    /\ backend[Len(query_templates)] # <<>>


\* C11: when the resolved target_domain is itself in the blacklist,
\* found_emails is empty whatever the backend answered: a candidate of the
\* target domain fails the blacklist check and any other the target check.
C11_BlacklistedTargetEmpty ==
    target_domain \in BLACKLISTED_DOMAINS => found_emails = <<>>

\* A finished run whose target domain is blacklisted and whose searches had
\* found a candidate of the target domain and one of another domain that is
\* not blacklisted.
C11_Witness ==
    /\ pc = "DONE"
    /\ target_domain \in BLACKLISTED_DOMAINS
    /\ result_dict.target_domain = target_domain
    /\ \E e \in all_found_emails_set : AfterAt(e) = target_domain
    /\ \E e \in all_found_emails_set : AfterAt(e) \notin BLACKLISTED_DOMAINS
====
